---- MODULE Spec2Model ----
(***************************************************************************)
(* Script-invocation subsystem of apple-notes-exporter: the Exporter class *)
(* (script source resolution, invocation building, process launch and      *)
(* outcome mapping, in synchronous and asynchronous form), its error       *)
(* classes, and the environment it touches (process.platform, the          *)
(* filesystem, the osascript child process).                               *)
(*                                                                         *)
(* Strings are sequences of one-character strings.  A path is a record     *)
(* [abs, segs]: whether it starts at the root, and its segments.  The      *)
(* filesystem is the set of regular files and the set of directories, each *)
(* a set of absolute segment sequences.  An optional value is <<>> (absent, *)
(* null or undefined) or <<v>>.                                            *)
(***************************************************************************)
EXTENDS Integers, Sequences, FiniteSets, TLC

VARIABLES
    platform,   \* process.platform
    files,      \* regular files on the filesystem
    dirs,       \* directories on the filesystem
    exporters,  \* the Exporter instances constructed so far (their scriptSource)
    calls,      \* the list/export calls made so far, each with its child and result
    lastCtor,   \* what the latest Exporter.create / withScriptPath returned or threw
    cli         \* the latest run of the command-line program: its streams and exit

vars == <<platform, files, dirs, exporters, calls, lastCtor, cli>>

----------------------------------------------------------------------------
(* Bounds of the model *)

MaxExporters == 2
MaxCalls == 2

----------------------------------------------------------------------------
(* Optional values *)

None == <<>>
Some(v) == <<v>>

----------------------------------------------------------------------------
(* Paths (node:path) *)

Rel(segs) == [abs |-> FALSE, segs |-> segs]
Abs(segs) == [abs |-> TRUE, segs |-> segs]

\* The empty string as a path argument.
EmptyPath == Rel(<<>>)

\* process.cwd(), which path.resolve() falls back to.
Cwd == <<"w">>

\* path.resolve(base, p): p when it is absolute, else p's segments under base.
PathResolveFrom(base, p) == IF p.abs THEN p ELSE Abs(base \o p.segs)

\* path.resolve(p)
PathResolve(p) == PathResolveFrom(Cwd, p)

\* !s for a path string s: only the empty string is falsy.
IsFalsy(p) == ~p.abs /\ p.segs = <<>>

VENDORED_SCRIPT_PATH == Rel(<<"vendor", "export_notes.applescript">>)

\* __dirname/.. of the compiled module
getPackageRoot == <<"pkg">>

getVendoredScriptPath == PathResolveFrom(getPackageRoot, VENDORED_SCRIPT_PATH)

----------------------------------------------------------------------------
(* Filesystem (node:fs) *)

Prefixes(segs) == {SubSeq(segs, 1, k) : k \in 0..Len(segs)}
ProperPrefixes(segs) == Prefixes(segs) \ {segs}

\* fs.existsSync(p) on a filesystem whose directories are d
ExistsSync(p, d) == ~IsFalsy(p) /\ PathResolve(p).segs \in (files \cup d)

\* fs.mkdirSync(p) without the recursive option: it throws when p exists
\* already and when the parent of p is missing.
MkdirSync_NotRecursive(p) ==
    LET t == PathResolve(p).segs IN
    IF IsFalsy(p) THEN [thrown |-> Some([kind |-> "SystemError", code |-> "ENOENT"]), dirs |-> dirs]
    ELSE IF t \in files \cup dirs
         THEN [thrown |-> Some([kind |-> "SystemError", code |-> "EEXIST"]), dirs |-> dirs]
    ELSE IF ProperPrefixes(t) \cap files # {}
         THEN [thrown |-> Some([kind |-> "SystemError", code |-> "ENOTDIR"]), dirs |-> dirs]
    ELSE IF ~(ProperPrefixes(t) \subseteq dirs)
         THEN [thrown |-> Some([kind |-> "SystemError", code |-> "ENOENT"]), dirs |-> dirs]
    ELSE [thrown |-> None, dirs |-> dirs \cup {t}]

\* fs.mkdirSync(p, {recursive: true}): the directories afterwards, and the
\* error it throws (none when p is, or can be made, a directory).
MkdirSyncRecursive(p) ==
    LET t == PathResolve(p).segs IN
    IF IsFalsy(p) THEN [thrown |-> Some([kind |-> "SystemError", code |-> "ENOENT"]), dirs |-> dirs]
    ELSE IF t \in files THEN [thrown |-> Some([kind |-> "SystemError", code |-> "EEXIST"]), dirs |-> dirs]
    ELSE IF ProperPrefixes(t) \cap files # {}
         THEN [thrown |-> Some([kind |-> "SystemError", code |-> "ENOTDIR"]), dirs |-> dirs]
    ELSE [thrown |-> None, dirs |-> dirs \cup Prefixes(t)]

----------------------------------------------------------------------------
(* Error classes (errors.ts) *)

UnsupportedPlatformError(p) == [kind |-> "UnsupportedPlatformError", platform |-> p]
ScriptNotFoundError(p) == [kind |-> "ScriptNotFoundError", scriptPath |-> p]
InvalidPathError(p) == [kind |-> "InvalidPathError", path |-> p]
LaunchError(cause) == [kind |-> "LaunchError", cause |-> cause]

\* stderr is an optional string; the message mentions it only when it is truthy.
ScriptFailedError(exitCode, stderr) ==
    [kind |-> "ScriptFailedError", exitCode |-> exitCode, stderr |-> stderr,
     message |-> IF stderr # None
                 THEN <<"AppleScript exited with status ", exitCode, ": ", stderr[1]>>
                 ELSE <<"AppleScript exited with status ", exitCode>>]

\* The classes derived from ExportError.
ExportErrorKinds ==
    {"UnsupportedPlatformError", "ScriptNotFoundError", "TempFileError",
     "InvalidPathError", "LaunchError", "ScriptFailedError"}

----------------------------------------------------------------------------
(* Script sources and construction *)

Embedded == [type |-> "embedded"]
FromPath(p) == [type |-> "path", path |-> p]

\* withScriptPath without the existence test.
withScriptPathResult_NoCheck(scriptPath) ==
    [thrown |-> None, source |-> Some(FromPath(PathResolve(scriptPath)))]

\* withScriptPath keeping the path as given instead of the resolved one.
withScriptPathResult_Unresolved(scriptPath) ==
    IF ~ExistsSync(PathResolve(scriptPath), dirs)
    THEN [thrown |-> Some(ScriptNotFoundError(PathResolve(scriptPath))), source |-> None]
    ELSE [thrown |-> None, source |-> Some(FromPath(scriptPath))]

\* Exporter.withScriptPath(scriptPath): the path it resolves, the error it
\* throws (if any) and the scriptSource of the instance it returns (if any).
withScriptPathResult(scriptPath) ==
    LET resolvedPath == PathResolve(scriptPath) IN
    IF ~ExistsSync(resolvedPath, dirs)
    THEN [thrown |-> Some(ScriptNotFoundError(resolvedPath)), source |-> None]
    ELSE [thrown |-> None, source |-> Some(FromPath(resolvedPath))]

----------------------------------------------------------------------------
(* Invocation building and script launch, up to the spawn.                  *)
(* Each operator yields what the synchronous part of a call did: the trace *)
(* of environment interactions in program order, the directories          *)
(* afterwards, the error thrown (if any) and the child spawned (if any).   *)

\* The folder specifier with every ':' inside the two names dropped.
folderSpecOf_Sanitised(account, folder) ==
    SelectSeq(account, LAMBDA ch : ch # ":") \o <<":">> \o SelectSeq(folder, LAMBDA ch : ch # ":")

\* `${account}:${folder}`
folderSpecOf(account, folder) == account \o <<":">> \o folder

\* checkPlatform that never throws.
checkPlatform_Skipped == None

\* checkPlatform(): the error it throws, if any.
checkPlatform ==
    IF platform # "darwin" THEN Some(UnsupportedPlatformError(platform)) ELSE None

\* spawn("osascript", [scriptPath, ...args], {stdio: "inherit"}) and spawnSync alike.
spawnOsascript(scriptPath, args) ==
    [command |-> "osascript", argv |-> <<scriptPath>> \o args, stdio |-> "inherit"]

\* runScriptFile / runScriptFileSync, up to the spawn.
runScriptFileSpawn(scriptPath, args) ==
    [trace |-> <<"spawn">>, thrown |-> None, spawn |-> Some(spawnOsascript(scriptPath, args))]

\* runEmbeddedScript without the existence test.
runEmbeddedScript_NoCheck(args, d) ==
    runScriptFileSpawn(getVendoredScriptPath, args)

\* runEmbeddedScript / runEmbeddedScriptSync, up to the spawn; d: directories now.
runEmbeddedScript(args, d) ==
    LET scriptPath == getVendoredScriptPath IN
    IF ~ExistsSync(scriptPath, d)
    THEN [trace |-> <<"existsSync">>, thrown |-> Some(ScriptNotFoundError(scriptPath)),
          spawn |-> None]
    ELSE LET r == runScriptFileSpawn(scriptPath, args) IN
         [r EXCEPT !.trace = <<"existsSync">> \o r.trace]

\* runScript testing the existence of a custom script again at every call.
runScript_CheckPath(scriptSource, args, d) ==
    IF checkPlatform # None
    THEN [trace |-> <<"checkPlatform">>, thrown |-> checkPlatform, spawn |-> None]
    ELSE IF scriptSource.type = "path" /\ ~ExistsSync(scriptSource.path, d)
    THEN [trace |-> <<"checkPlatform", "existsSync">>,
          thrown |-> Some(ScriptNotFoundError(scriptSource.path)), spawn |-> None]
    ELSE LET r == IF scriptSource.type = "embedded"
                  THEN runEmbeddedScript(args, d)
                  ELSE runScriptFileSpawn(scriptSource.path, args)
         IN  [r EXCEPT !.trace = <<"checkPlatform">> \o r.trace]

\* runScript / runScriptSync, up to the spawn.
runScript(scriptSource, args, d) ==
    IF checkPlatform # None
    THEN [trace |-> <<"checkPlatform">>, thrown |-> checkPlatform, spawn |-> None]
    ELSE LET r == IF scriptSource.type = "embedded"
                  THEN runEmbeddedScript(args, d)
                  ELSE runScriptFileSpawn(scriptSource.path, args)
         IN  [r EXCEPT !.trace = <<"checkPlatform">> \o r.trace]

\* prepareOutputDir returning the directory as given instead of the resolved one.
prepareOutputDir_Unresolved(outputDir) ==
    LET made == MkdirSyncRecursive(outputDir) IN
    IF made.thrown # None
    THEN [trace |-> <<"mkdirSync">>, thrown |-> made.thrown, dirs |-> made.dirs,
          resolved |-> None]
    ELSE [trace |-> <<"mkdirSync">>, thrown |-> None, dirs |-> made.dirs,
          resolved |-> Some(outputDir)]

\* prepareOutputDir(outputDir)
prepareOutputDir(outputDir) ==
    LET made == MkdirSyncRecursive(outputDir)
        resolved == PathResolve(outputDir)
    IN  IF made.thrown # None
        THEN [trace |-> <<"mkdirSync">>, thrown |-> made.thrown, dirs |-> made.dirs,
              resolved |-> None]
        ELSE IF IsFalsy(resolved)
        THEN [trace |-> <<"mkdirSync">>, thrown |-> Some(InvalidPathError(outputDir)),
              dirs |-> made.dirs, resolved |-> None]
        ELSE [trace |-> <<"mkdirSync">>, thrown |-> None, dirs |-> made.dirs,
              resolved |-> Some(resolved)]

\* exportFolderImpl running the script stage before preparing the directory.
exportFolderImpl_ScriptFirst(scriptSource, folderSpec, outputDir) ==
    LET r == runScript(scriptSource, <<"export", folderSpec, PathResolve(outputDir)>>, dirs) IN
    IF r.thrown # None
    THEN [trace |-> r.trace, thrown |-> r.thrown, spawn |-> None, dirs |-> dirs,
          resolved |-> None]
    ELSE LET prep == prepareOutputDir(outputDir) IN
         [trace |-> r.trace \o prep.trace, thrown |-> prep.thrown,
          spawn |-> IF prep.thrown # None THEN None ELSE r.spawn,
          dirs |-> prep.dirs, resolved |-> prep.resolved]

\* exportFolderImpl / exportFolderImplSync, up to the spawn.
exportFolderImpl(scriptSource, folderSpec, outputDir) ==
    LET prep == prepareOutputDir(outputDir) IN
    IF prep.thrown # None
    THEN [trace |-> prep.trace, thrown |-> prep.thrown, spawn |-> None, dirs |-> prep.dirs,
          resolved |-> None]
    ELSE LET r == runScript(scriptSource, <<"export", folderSpec, prep.resolved[1]>>, prep.dirs)
         IN  [trace |-> prep.trace \o r.trace, thrown |-> r.thrown, spawn |-> r.spawn,
              dirs |-> prep.dirs, resolved |-> prep.resolved]

\* listFolders passing one more argument after the verb.
listFoldersImpl_ExtraArg(scriptSource) ==
    LET r == runScript(scriptSource, <<"list", "--all">>, dirs) IN
    [trace |-> r.trace, thrown |-> r.thrown, spawn |-> r.spawn, dirs |-> dirs,
     resolved |-> None]

\* listFolders / listFoldersSync, up to the spawn.
listFoldersImpl(scriptSource) ==
    LET r == runScript(scriptSource, <<"list">>, dirs) IN
    [trace |-> r.trace, thrown |-> r.thrown, spawn |-> r.spawn, dirs |-> dirs,
     resolved |-> None]

----------------------------------------------------------------------------
(* Process outcomes and their mapping *)

\* What the process layer reports for one child: spawnSync's result
\* {error, status, signal}; in asynchronous mode an "error" event carries
\* error and an "exit" event carries (code, signal) = (status, signal).
SpawnFailure(cause) == [error |-> Some(cause), status |-> None, signal |-> None]
Exited(code) == [error |-> None, status |-> Some(code), signal |-> None]
Killed(signal) == [error |-> None, status |-> None, signal |-> Some(signal)]
Anomalous == [error |-> None, status |-> None, signal |-> None]

EventKind(o) == IF o.error # None THEN "error" ELSE "exit"

Fulfilled == [state |-> "fulfilled", error |-> None]
Rejected(e) == [state |-> "rejected", error |-> Some(e)]

\* An error handler that rejects with the error it was given.
onError_Raw(error) == Rejected(error)

\* child.on("error", ...) of runScriptFile
onError(error) == Rejected(LaunchError(error))

\* onExit without the test for code 0: a clean exit is reported as a failure.
onExit_NoZeroTest(code, signal) ==
    IF code # None THEN Rejected(ScriptFailedError(code[1], None))
    ELSE IF signal # None
         THEN Rejected(ScriptFailedError(-1, Some(<<"Process terminated by signal: ", signal[1]>>)))
    ELSE Rejected(ScriptFailedError(-1, Some(<<"Unknown error">>)))

\* child.on("exit", ...) of runScriptFile
onExit(code, signal) ==
    IF code = Some(0) THEN Fulfilled
    ELSE IF code # None THEN Rejected(ScriptFailedError(code[1], None))
    ELSE IF signal # None
         THEN Rejected(ScriptFailedError(-1, Some(<<"Process terminated by signal: ", signal[1]>>)))
    ELSE Rejected(ScriptFailedError(-1, Some(<<"Unknown error">>)))

\* runScriptFileSync after spawnSync returned result
runScriptFileSyncResult(result) ==
    IF result.error # None THEN Rejected(LaunchError(result.error[1]))
    ELSE IF result.status # Some(0)
         THEN Rejected(ScriptFailedError(IF result.status # None THEN result.status[1] ELSE -1,
                                         None))
    ELSE Fulfilled

----------------------------------------------------------------------------
(* Inputs and environment the model draws from *)

Platforms == {"darwin", "linux"}

\* Where a custom script may live: "s" in the working directory.
CustomScript == Cwd \o <<"s">>
ScriptFiles == {getVendoredScriptPath.segs, CustomScript}

\* Arguments given to withScriptPath: the custom script, relative and absolute.
ScriptPathArgs == {Rel(<<"s">>), Abs(CustomScript)}

\* Account and folder names, with and without an embedded ':'.
AccountNames == {<<"a">>, <<"a", ":">>}
FolderNames == {<<"b">>, <<":", "b">>}

\* Folder arguments given to exportFolder: a bare name and an account:folder string.
FolderArgs == {<<"b">>, <<"a", ":", ":", "b">>}

\* Output directories: relative with a missing parent, absolute, the empty
\* string, and the place of the custom script (a regular file when installed).
OutputDirArgs == {Rel(<<"out", "sub">>), Abs(Cwd \o <<"out">>), EmptyPath, Rel(<<"s">>)}

ExitCodes == {0, 1, 2}
Signals == {"SIGTERM"}
OsErrors == {[kind |-> "SystemError", code |-> "ENOENT"]}

\* Everything the process layer can report for a child.
Outcomes ==
    {SpawnFailure(e) : e \in OsErrors} \cup {Exited(n) : n \in ExitCodes}
        \cup {Killed(sig) : sig \in Signals} \cup {Anomalous}

----------------------------------------------------------------------------
(* State machine *)

\* The command-line program has not been run.
NotRun == [pc |-> "none"]

Init ==
    /\ platform \in Platforms
    /\ files \in SUBSET ScriptFiles
    /\ dirs = Prefixes(Cwd) \cup Prefixes(getPackageRoot \o <<"vendor">>)
    /\ exporters = <<>>
    /\ calls = <<>>
    /\ lastCtor = [op |-> "none"]
    /\ cli = NotRun

\* Exporter.create()
Create ==
    /\ Len(exporters) < MaxExporters
    /\ exporters' = Append(exporters, Embedded)
    /\ lastCtor' = [op |-> "create", platform |-> platform, thrown |-> None,
                    returned |-> Some(Len(exporters) + 1)]
    /\ UNCHANGED <<platform, files, dirs, calls, cli>>

\* Exporter.withScriptPath(scriptPath)
WithScriptPath(scriptPath) ==
    LET r == withScriptPathResult(scriptPath) IN
    /\ Len(exporters) < MaxExporters
    /\ exporters' = IF r.source # None THEN Append(exporters, r.source[1]) ELSE exporters
    /\ lastCtor' = [op |-> "withScriptPath", platform |-> platform,
                    scriptPath |-> scriptPath,
                    existed |-> ExistsSync(PathResolve(scriptPath), dirs),
                    thrown |-> r.thrown,
                    returned |-> IF r.source # None THEN Some(Len(exporters) + 1) ELSE None]
    /\ UNCHANGED <<platform, files, dirs, calls, cli>>

\* The record of a call whose synchronous part did r, with the environment
\* it was made in (the platform, whether the script of its exporter existed),
\* what prepareOutputDir returned to it and the directories it left.
\* A synchronous call
\* that spawned has blocked until spawnSync returned result o; an asynchronous
\* one returns a promise that is pending until the child emits an event.
CallRecordOf(e, scriptSource, mode, input, r, o) ==
    LET settled == IF r.thrown # None THEN Rejected(r.thrown[1])
                   ELSE IF mode = "sync" THEN runScriptFileSyncResult(o)
                   ELSE [state |-> "pending", error |-> None]
    IN  [exporter |-> e, source |-> scriptSource, mode |-> mode, input |-> input,
         platform |-> platform,
         scriptPresent |-> ExistsSync(IF scriptSource.type = "embedded"
                                      THEN getVendoredScriptPath
                                      ELSE scriptSource.path, dirs),
         prepared |-> r.resolved, dirsAfter |-> r.dirs,
         trace |-> r.trace, spawn |-> r.spawn,
         outcome |-> IF r.spawn # None /\ mode = "sync" THEN Some(o) ELSE None,
         events |-> {},
         state |-> settled.state, error |-> settled.error]

\* The record of a call on exporter e.
CallRecord(e, mode, input, r, o) == CallRecordOf(e, exporters[e], mode, input, r, o)

\* One call on exporter e: its synchronous part, and for mode "sync" the
\* whole call, spawnSync returning one of outs.
Call(e, mode, input, r, outs) ==
    /\ Len(calls) < MaxCalls
    /\ \E o \in (IF r.spawn # None /\ mode = "sync" THEN outs ELSE {Anomalous}) :
           calls' = Append(calls, CallRecord(e, mode, input, r, o))
    /\ dirs' = r.dirs
    /\ UNCHANGED <<platform, files, exporters, lastCtor, cli>>

\* exporter.listFolders()
ListFolders(e) ==
    Call(e, "async", [op |-> "list"], listFoldersImpl(exporters[e]), {})

\* exporter.listFoldersSync()
ListFoldersSync(e, outs) ==
    Call(e, "sync", [op |-> "list"], listFoldersImpl(exporters[e]), outs)

\* exporter.exportFolder(folder, outputDir)
ExportFolder(e, folder, outputDir) ==
    Call(e, "async", [op |-> "export", folder |-> folder, outputDir |-> outputDir],
         exportFolderImpl(exporters[e], folder, outputDir), {})

\* exporter.exportFolderSync(folder, outputDir)
ExportFolderSync(e, folder, outputDir, outs) ==
    Call(e, "sync", [op |-> "export", folder |-> folder, outputDir |-> outputDir],
         exportFolderImpl(exporters[e], folder, outputDir), outs)

\* exporter.exportFolderFromAccount(account, folder, outputDir)
ExportFolderFromAccount(e, account, folder, outputDir) ==
    Call(e, "async",
         [op |-> "exportFromAccount", account |-> account, folder |-> folder,
          outputDir |-> outputDir],
         exportFolderImpl(exporters[e], folderSpecOf(account, folder), outputDir), {})

\* exporter.exportFolderFromAccountSync(account, folder, outputDir)
ExportFolderFromAccountSync(e, account, folder, outputDir, outs) ==
    Call(e, "sync",
         [op |-> "exportFromAccount", account |-> account, folder |-> folder,
          outputDir |-> outputDir],
         exportFolderImpl(exporters[e], folderSpecOf(account, folder), outputDir), outs)

\* ChildEmit with one result shared by the calls in flight: the event of one
\* child settles every pending asynchronous call.
ChildEmit_Shared(i, o) ==
    LET c == calls[i]
        handled == IF EventKind(o) = "error" THEN onError(o.error[1])
                   ELSE onExit(o.status, o.signal)
    IN  /\ c.mode = "async"
        /\ c.spawn # None
        /\ EventKind(o) \notin c.events
        /\ calls' = [k \in 1..Len(calls) |->
                        IF k = i
                        THEN IF c.state = "pending"
                             THEN [c EXCEPT !.state = handled.state, !.error = handled.error,
                                            !.outcome = Some(o), !.events = {EventKind(o)}]
                             ELSE [c EXCEPT !.events = c.events \cup {EventKind(o)}]
                        ELSE IF calls[k].mode = "async" /\ calls[k].state = "pending"
                             THEN [calls[k] EXCEPT !.state = handled.state,
                                                   !.error = handled.error]
                             ELSE calls[k]]
        /\ UNCHANGED <<platform, files, dirs, exporters, lastCtor, cli>>

\* ChildEmit whose handlers settle the call at every event: the last event
\* of the child decides the result.
ChildEmit_LastWins(i, o) ==
    LET c == calls[i]
        handled == IF EventKind(o) = "error" THEN onError(o.error[1])
                   ELSE onExit(o.status, o.signal)
    IN  /\ c.mode = "async"
        /\ c.spawn # None
        /\ EventKind(o) \notin c.events
        /\ calls' = [calls EXCEPT ![i] =
                        [c EXCEPT !.state = handled.state, !.error = handled.error,
                                  !.outcome = Some(o),
                                  !.events = c.events \cup {EventKind(o)}]]
        /\ UNCHANGED <<platform, files, dirs, exporters, lastCtor, cli>>

\* The child of asynchronous call i emits "error" or "exit" (each at most
\* once, in either order); the handler settles the promise if it is pending.
ChildEmit(i, o) ==
    LET c == calls[i]
        handled == IF EventKind(o) = "error" THEN onError(o.error[1])
                   ELSE onExit(o.status, o.signal)
    IN  /\ c.mode = "async"
        /\ c.spawn # None
        /\ EventKind(o) \notin c.events
        /\ calls' = [calls EXCEPT ![i] =
                        IF c.state = "pending"
                        THEN [c EXCEPT !.state = handled.state, !.error = handled.error,
                                       !.outcome = Some(o), !.events = {EventKind(o)}]
                        ELSE [c EXCEPT !.events = c.events \cup {EventKind(o)}]]
        /\ UNCHANGED <<platform, files, dirs, exporters, lastCtor, cli>>

\* process.platform changes (a mocked platform identifier).
SetPlatform(p) ==
    /\ p # platform
    /\ platform' = p
    /\ UNCHANGED <<files, dirs, exporters, calls, lastCtor, cli>>

\* A script file is removed from, or installed on, the filesystem.
RemoveScript(f) ==
    /\ f \in files
    /\ files' = files \ {f}
    /\ UNCHANGED <<platform, dirs, exporters, calls, lastCtor, cli>>

InstallScript(f) ==
    /\ f \notin files
    /\ f \notin dirs
    /\ ProperPrefixes(f) \subseteq dirs
    /\ files' = files \cup {f}
    /\ UNCHANGED <<platform, dirs, exporters, calls, lastCtor, cli>>

\* The calls a caller can make, with arguments and spawnSync results drawn
\* from the given sets.
Calls(folderArgs, accounts, folders, outputDirs, outs) ==
    \/ \E e \in 1..Len(exporters) : ListFolders(e)
    \/ \E e \in 1..Len(exporters) : ListFoldersSync(e, outs)
    \/ \E e \in 1..Len(exporters), f \in folderArgs, d \in outputDirs :
           ExportFolder(e, f, d)
    \/ \E e \in 1..Len(exporters), f \in folderArgs, d \in outputDirs :
           ExportFolderSync(e, f, d, outs)
    \/ \E e \in 1..Len(exporters), a \in accounts, f \in folders, d \in outputDirs :
           ExportFolderFromAccount(e, a, f, d)
    \/ \E e \in 1..Len(exporters), a \in accounts, f \in folders, d \in outputDirs :
           ExportFolderFromAccountSync(e, a, f, d, outs)

Constructions ==
    \/ Create
    \/ \E sp \in ScriptPathArgs : WithScriptPath(sp)

Environment ==
    \/ \E p \in Platforms : SetPlatform(p)
    \/ \E f \in ScriptFiles : RemoveScript(f)
    \/ \E f \in ScriptFiles : InstallScript(f)

----------------------------------------------------------------------------
(* The command-line program (cli.ts).  One run: main() parses the arguments, *)
(* builds an exporter and awaits one asynchronous call on it.  What the run *)
(* writes is kept per stream, as the sequence of the texts written.         *)

\* The texts the program writes.
UsageText == [text |-> "usage"]
VersionText == [text |-> "version"]
MissingArgsText == [text |-> "Error: 'export' requires a folder name and output directory."]
UnknownCommandText(command) == [text |-> "Error: Unknown command", command |-> command]
ErrorText(error) == [text |-> "Error: message", error |-> error]

\* printUsage(): what it adds to each stream.
printUsage == [stdout |-> <<UsageText>>, stderr |-> <<>>]

\* printVersion()
printVersion == [stdout |-> <<VersionText>>, stderr |-> <<>>]

\* args.includes(x)
Includes(args, x) == \E k \in 1..Len(args) : args[k] = x

\* args.indexOf(x), counted from 1; 0 when x is absent (JavaScript: -1).
IndexOf(args, x) ==
    IF Includes(args, x)
    THEN CHOOSE k \in 1..Len(args) : args[k] = x /\ \A j \in 1..(k - 1) : args[j] # x
    ELSE 0

\* The loop of parseArgs from position i on: the arguments that are neither
\* "--script" nor the argument following it.
RECURSIVE remainingArgs(_, _)
remainingArgs(args, i) ==
    IF i > Len(args) THEN <<>>
    ELSE IF args[i] = "--script" THEN remainingArgs(args, i + 2)
    ELSE <<args[i]>> \o remainingArgs(args, i + 1)

\* A usage error of parseArgs: the message on stderr, printUsage(), exit(1).
UsageError(message) ==
    [stdout |-> printUsage.stdout, stderr |-> <<message>> \o printUsage.stderr,
     exit |-> Some(1), parsed |-> None]

Parsed(p) == [stdout |-> <<>>, stderr |-> <<>>, exit |-> None, parsed |-> Some(p)]

\* parseArgs(argv), args being argv.slice(2): what it writes, the status it
\* exits with (if it exits) and the ParsedArgs it returns (if it returns).
parseArgs(args) ==
    IF Len(args) = 0 THEN Parsed([command |-> "help"])
    ELSE LET command == args[1]
             scriptIndex == IndexOf(args, "--script")
             scriptPath == IF scriptIndex # 0 /\ scriptIndex + 1 <= Len(args)
                           THEN Some(args[scriptIndex + 1]) ELSE None
             rest == remainingArgs(args, 2)
         IN  IF Includes(args, "-h") \/ Includes(args, "--help") \/ command = "help"
             THEN Parsed([command |-> "help"])
             ELSE IF Includes(args, "-V") \/ Includes(args, "--version")
                     \/ command = "version"
             THEN Parsed([command |-> "version"])
             ELSE IF command \in {"list", "ls"}
             THEN Parsed([command |-> "list", scriptPath |-> scriptPath])
             ELSE IF command = "export"
             THEN IF Len(args) < 3 THEN UsageError(MissingArgsText)
                  ELSE IF Len(rest) < 2 THEN UsageError(MissingArgsText)
                  ELSE Parsed([command |-> "export", folder |-> rest[1],
                               outputDir |-> rest[2], scriptPath |-> scriptPath])
             ELSE UsageError(UnknownCommandText(command))

\* A command-line argument used as a path names one entry of the working
\* directory; used as a folder it is the folder's name.
PathOfArg(a) == Rel(<<a>>)
FolderOfArg(a) == <<a>>

\* createExporter(scriptPath): the path it hands to Exporter.withScriptPath,
\* none when it falls back to Exporter.create() (cli.ts computes the vendored
\* path as exporter.ts does).
createExporterPath(scriptPath) ==
    IF scriptPath # None THEN Some(PathOfArg(scriptPath[1]))
    ELSE IF ExistsSync(getVendoredScriptPath, dirs) THEN Some(getVendoredScriptPath)
    ELSE None

\* createExporter(scriptPath): the exporter's script source, or what is thrown.
createExporter(scriptPath) ==
    IF createExporterPath(scriptPath) # None
    THEN withScriptPathResult(createExporterPath(scriptPath)[1])
    ELSE [thrown |-> None, source |-> Some(Embedded)]

\* What the constructor called by createExporter(scriptPath) returned or threw.
createExporterCtor(scriptPath) ==
    LET given == createExporterPath(scriptPath)
        made == createExporter(scriptPath)
    IN  IF given = None
        THEN [op |-> "create", platform |-> platform, thrown |-> None,
              returned |-> Some(Len(exporters) + 1)]
        ELSE [op |-> "withScriptPath", platform |-> platform, scriptPath |-> given[1],
              existed |-> ExistsSync(PathResolve(given[1]), dirs),
              thrown |-> made.thrown,
              returned |-> IF made.source # None THEN Some(Len(exporters) + 1) ELSE None]

\* The catch block of main(): an ExportError is printed and the process
\* exits with 1; any other error is thrown again.
mainCatch(c, error) ==
    IF error.kind \in ExportErrorKinds
    THEN [c EXCEPT !.pc = "exited", !.stderr = c.stderr \o <<ErrorText(error)>>,
                   !.exitCode = Some(1)]
    ELSE [c EXCEPT !.pc = "rethrown", !.uncaught = Some(error)]

\* A run that has written out and err and has not ended.
Running(args, out, err) ==
    [pc |-> "running", argv |-> args, stdout |-> out, stderr |-> err,
     exitCode |-> None, exporter |-> None, call |-> None, uncaught |-> None]

\* The arguments a run is started with.
MaxArgs == 4
CliTokens == {"list", "ls", "export", "version", "frob", "--script", "-h", "s"}
RECURSIVE SeqsUpTo(_, _)
SeqsUpTo(S, n) ==
    IF n = 0 THEN {<<>>}
    ELSE LET shorter == SeqsUpTo(S, n - 1)
         IN  shorter \cup {Append(q, t) : q \in {x \in shorter : Len(x) = n - 1}, t \in S}
CliArgs == SeqsUpTo(CliTokens, MaxArgs)

\* main(), from parseArgs(process.argv) up to the point where run() awaits
\* the call it made (or to the end of the process, when it gets there first).
CliMain(args) ==
    LET p == parseArgs(args)
        c0 == Running(args, p.stdout, p.stderr)
    IN
    /\ cli.pc = "none"
    /\ Len(exporters) < MaxExporters
    /\ Len(calls) < MaxCalls
    /\ IF p.exit # None
       THEN /\ cli' = [c0 EXCEPT !.pc = "exited", !.exitCode = p.exit]
            /\ UNCHANGED <<platform, files, dirs, exporters, calls, lastCtor>>
       ELSE IF p.parsed[1].command = "help"
       THEN /\ cli' = [c0 EXCEPT !.pc = "exited", !.exitCode = Some(0),
                                 !.stdout = c0.stdout \o printUsage.stdout]
            /\ UNCHANGED <<platform, files, dirs, exporters, calls, lastCtor>>
       ELSE IF p.parsed[1].command = "version"
       THEN /\ cli' = [c0 EXCEPT !.pc = "exited", !.exitCode = Some(0),
                                 !.stdout = c0.stdout \o printVersion.stdout]
            /\ UNCHANGED <<platform, files, dirs, exporters, calls, lastCtor>>
       ELSE LET made == createExporter(p.parsed[1].scriptPath) IN
            IF made.thrown # None
            THEN /\ cli' = mainCatch(c0, made.thrown[1])
                 /\ lastCtor' = createExporterCtor(p.parsed[1].scriptPath)
                 /\ UNCHANGED <<platform, files, dirs, exporters, calls>>
            ELSE LET src == made.source[1]
                     e == Len(exporters) + 1
                     input == IF p.parsed[1].command = "list" THEN [op |-> "list"]
                              ELSE [op |-> "export",
                                    folder |-> FolderOfArg(p.parsed[1].folder),
                                    outputDir |-> PathOfArg(p.parsed[1].outputDir)]
                     r == IF p.parsed[1].command = "list" THEN listFoldersImpl(src)
                          ELSE exportFolderImpl(src, input.folder, input.outputDir)
                     rec == CallRecordOf(e, src, "async", input, r, Anomalous)
                     c1 == [c0 EXCEPT !.exporter = Some(e), !.call = Some(Len(calls) + 1)]
                 IN  /\ exporters' = Append(exporters, src)
                     /\ calls' = Append(calls, rec)
                     /\ dirs' = r.dirs
                     /\ cli' = IF rec.state = "rejected" THEN mainCatch(c1, rec.error[1])
                               ELSE [c1 EXCEPT !.pc = "awaiting"]
                     /\ lastCtor' = createExporterCtor(p.parsed[1].scriptPath)
                     /\ UNCHANGED <<platform, files>>

\* The call that main() awaits has settled: run() returns and the process
\* ends with status 0, or the rejection reaches the catch block of main().
CliResume ==
    /\ cli.pc = "awaiting"
    /\ calls[cli.call[1]].state # "pending"
    /\ cli' = IF calls[cli.call[1]].state = "fulfilled"
              THEN [cli EXCEPT !.pc = "exited", !.exitCode = Some(0)]
              ELSE mainCatch(cli, calls[cli.call[1]].error[1])
    /\ UNCHANGED <<platform, files, dirs, exporters, calls, lastCtor>>

----------------------------------------------------------------------------
(* Spec: the life of exporters in a changing environment (platform and     *)
(* script files come and go), with one argument of each kind and children *)
(* that exit with 0.                                                       *)

LifeOutcomes == {Exited(0)}

Next ==
    \/ Constructions
    \/ Calls({<<"b">>}, {<<"a">>}, {<<"b">>}, {Rel(<<"out", "sub">>)}, LifeOutcomes)
    \/ \E i \in 1..Len(calls), o \in LifeOutcomes : ChildEmit(i, o)
    \/ Environment

Spec == Init /\ [][Next]_vars

----------------------------------------------------------------------------
(* SpecOutcome: every process outcome, on the supported platform with both *)
(* scripts installed and one exporter of each script source.               *)

\* One exporter of each script source has been constructed, the second by
\* withScriptPath while the custom script was installed.

InitReady ==
    /\ dirs = Prefixes(Cwd) \cup Prefixes(getPackageRoot \o <<"vendor">>)
    /\ exporters = <<Embedded, FromPath(Abs(CustomScript))>>
    /\ calls = <<>>
    /\ lastCtor = [op |-> "withScriptPath", platform |-> "darwin",
                   scriptPath |-> Abs(CustomScript),
                   existed |-> TRUE, thrown |-> None, returned |-> Some(2)]
    /\ cli = NotRun

InitOutcome ==
    /\ platform = "darwin"
    /\ files = ScriptFiles
    /\ InitReady

NextOutcome ==
    \/ Calls({<<"b">>}, {<<"a">>}, {<<"b">>}, {Rel(<<"out", "sub">>)}, Outcomes)
    \/ \E i \in 1..Len(calls), o \in Outcomes : ChildEmit(i, o)

SpecOutcome == InitOutcome /\ [][NextOutcome]_vars

----------------------------------------------------------------------------
(* SpecArgs: every argument of the model, on either platform, with and     *)
(* without each script file, and a child that exits with 0 or 1.           *)

InitArgs ==
    /\ platform \in Platforms
    /\ files \in SUBSET ScriptFiles
    /\ InitReady

ArgsOutcomes == {Exited(0), Exited(1)}

NextArgs ==
    \/ Calls(FolderArgs, AccountNames, FolderNames, OutputDirArgs, ArgsOutcomes)
    \/ \E i \in 1..Len(calls), o \in ArgsOutcomes : ChildEmit(i, o)

SpecArgs == InitArgs /\ [][NextArgs]_vars

----------------------------------------------------------------------------
(* SpecCli: one run of the command-line program with every argument list   *)
(* of the model, on either platform, with and without each script file,    *)
(* and every process outcome of the child it spawns.                       *)

NextCli ==
    \/ cli.pc = "none" /\ \E args \in CliArgs : CliMain(args)
    \/ \E i \in 1..Len(calls), o \in Outcomes : ChildEmit(i, o)
    \/ CliResume

SpecCli == Init /\ [][NextCli]_vars

----------------------------------------------------------------------------
(* Properties *)

Idx == 1..Len(calls)
Spawned(c) == c.spawn # None
IsExport(c) == c.input.op \in {"export", "exportFromAccount"}

\* The argument sequence handed to the child after the script path.
ArgsOf(c) == Tail(c.spawn[1].argv)

\* position of the first x in trace t, or 0
Pos(t, x) == IF \E k \in 1..Len(t) : t[k] = x
             THEN CHOOSE k \in 1..Len(t) : t[k] = x /\ \A j \in 1..(k - 1) : t[j] # x
             ELSE 0

\* C1: every call made while the platform is not darwin fails with
\* UnsupportedPlatformError after the platform check alone: no mkdirSync, no
\* existsSync, no spawn came before it.
C1_UnsupportedBeforeAnyInteraction ==
    \A i \in Idx :
        calls[i].platform # "darwin" =>
            /\ calls[i].trace = <<"checkPlatform">>
            /\ calls[i].spawn = None
            /\ calls[i].state = "rejected"
            /\ calls[i].error = Some(UnsupportedPlatformError(calls[i].platform))

\* C2: in both modes, when the process layer reports that the child exited
\* with code n, the call is fulfilled if n = 0 and otherwise rejected with a
\* ScriptFailedError whose exitCode is n and whose stderr is absent.
C2_ExitCodeMapping ==
    \A i \in Idx :
        LET c == calls[i] IN
        (c.outcome # None /\ c.outcome[1].error = None /\ c.outcome[1].status # None) =>
            IF c.outcome[1].status = Some(0)
            THEN c.state = "fulfilled" /\ c.error = None
            ELSE /\ c.state = "rejected"
                 /\ c.error # None
                 /\ c.error[1].kind = "ScriptFailedError"
                 /\ c.error[1].exitCode = c.outcome[1].status[1]
                 /\ c.error[1].stderr = None

\* A synchronous call whose child exited with 2 and an asynchronous call
\* whose child exited with 0, then one of each the other way round.
C2_Witness ==
    \E i, j \in Idx :
        /\ calls[i].mode = "sync" /\ calls[j].mode = "async"
        /\ \/ calls[i].outcome = Some(Exited(2)) /\ calls[j].outcome = Some(Exited(0))
           \/ calls[i].outcome = Some(Exited(0)) /\ calls[j].outcome = Some(Exited(2))
        /\ calls[j].state # "pending"

\* C3: in both modes, when the process layer reports that the child was
\* terminated by a signal, the call is rejected with a ScriptFailedError whose
\* exitCode is -1 and whose stderr text names the signal.
C3_SignalMapping ==
    \A i \in Idx :
        LET c == calls[i] IN
        (c.outcome # None /\ c.outcome[1].error = None /\ c.outcome[1].status = None
            /\ c.outcome[1].signal # None) =>
            /\ c.state = "rejected"
            /\ c.error # None
            /\ c.error[1].kind = "ScriptFailedError"
            /\ c.error[1].exitCode = -1
            /\ c.error[1].stderr # None
            /\ \E k \in 1..Len(c.error[1].stderr[1]) :
                   c.error[1].stderr[1][k] = c.outcome[1].signal[1]

\* C4: withScriptPath on a path that does not exist throws
\* ScriptNotFoundError carrying the resolved path and returns no instance; an
\* instance is returned only for a path that existed at construction.
C4_WithScriptPathFailsFast ==
    lastCtor.op = "withScriptPath" =>
        /\ ~lastCtor.existed =>
              /\ lastCtor.thrown = Some(ScriptNotFoundError(PathResolve(lastCtor.scriptPath)))
              /\ lastCtor.thrown[1].scriptPath.abs
              /\ lastCtor.returned = None
        /\ lastCtor.returned # None => lastCtor.existed /\ lastCtor.thrown = None

\* withScriptPath was given a relative path to a missing script and threw.
C4_Witness ==
    /\ lastCtor.op = "withScriptPath"
    /\ ~lastCtor.existed
    /\ ~lastCtor.scriptPath.abs
    /\ lastCtor.thrown # None
    /\ lastCtor.returned = None

\* A call got as far as script resolution: the platform guard passed.
ReachedResolution(c) == c.platform = "darwin" /\ Pos(c.trace, "checkPlatform") > 0

\* C5: Exporter.create() never throws and returns an embedded-source
\* instance; every call on such an instance that passes the platform guard
\* tests the vendored script's existence, and when the script is absent the
\* call is rejected with ScriptNotFoundError carrying the vendored path and
\* spawns no child.
C5_DefaultScriptCheckedPerCall ==
    /\ lastCtor.op = "create" =>
          /\ lastCtor.thrown = None
          /\ lastCtor.returned # None
          /\ exporters[lastCtor.returned[1]] = Embedded
    /\ \A i \in Idx :
          LET c == calls[i] IN
          (c.source.type = "embedded" /\ ReachedResolution(c)) =>
              /\ Pos(c.trace, "existsSync") > 0
              /\ ~c.scriptPresent =>
                    /\ c.state = "rejected"
                    /\ c.error = Some(ScriptNotFoundError(getVendoredScriptPath))
                    /\ c.spawn = None
                    /\ Pos(c.trace, "spawn") = 0

\* A synchronous and an asynchronous call on an embedded-source instance,
\* both made on darwin while the vendored script was absent.
C5_Witness ==
    \E i, j \in Idx :
        /\ calls[i].mode = "sync" /\ calls[j].mode = "async"
        /\ \A k \in {i, j} :
              /\ calls[k].source.type = "embedded"
              /\ calls[k].platform = "darwin"
              /\ ~calls[k].scriptPresent
              /\ calls[k].error # None
              /\ calls[k].error[1].kind = "ScriptNotFoundError"

\* C6: every instance holds one script source, the one each of its calls
\* used; the script path handed to a spawned child is absolute and was tested
\* for existence before the spawn (by withScriptPath for a path source, by the
\* same call for the embedded source), and nothing follows the spawn.
C6_SourceResolvedBeforeSpawn ==
    /\ \A e \in 1..Len(exporters) : exporters[e].type \in {"embedded", "path"}
    /\ (lastCtor.op = "withScriptPath" /\ lastCtor.returned # None) =>
          /\ lastCtor.existed
          /\ exporters[lastCtor.returned[1]] = FromPath(PathResolve(lastCtor.scriptPath))
    /\ \A i \in Idx :
          LET c == calls[i] IN
          /\ c.source = exporters[c.exporter]
          /\ Spawned(c) =>
                /\ c.spawn[1].argv[1].abs
                /\ c.trace[Len(c.trace)] = "spawn"
                /\ Pos(c.trace, "spawn") = Len(c.trace)
                /\ IF c.source.type = "embedded"
                   THEN /\ c.spawn[1].argv[1] = getVendoredScriptPath
                        /\ c.scriptPresent
                        /\ 0 < Pos(c.trace, "existsSync")
                        /\ Pos(c.trace, "existsSync") < Pos(c.trace, "spawn")
                   ELSE /\ c.spawn[1].argv[1] = c.source.path
                        /\ Pos(c.trace, "existsSync") = 0

\* One call spawned with the vendored script and another with a custom
\* script that withScriptPath had been given as a relative path.
C6_Witness ==
    /\ lastCtor.op = "withScriptPath" /\ lastCtor.returned # None
    /\ ~lastCtor.scriptPath.abs
    /\ \E i, j \in Idx :
          /\ Spawned(calls[i]) /\ calls[i].source.type = "embedded"
          /\ Spawned(calls[j]) /\ calls[j].exporter = lastCtor.returned[1]

\* C7: a call made while the platform is not darwin spawns no child and is
\* rejected, whatever happened before on the same instance.
C7_PlatformCheckedOnEveryCall ==
    \A i \in Idx :
        calls[i].platform # "darwin" =>
            /\ calls[i].spawn = None
            /\ Pos(calls[i].trace, "spawn") = 0
            /\ calls[i].state = "rejected"
            /\ calls[i].events = {}

\* An instance constructed on linux spawned a child in a first call, made on
\* darwin, and was refused in a second call, made on linux again.
C7_Witness ==
    /\ lastCtor.op \in {"create", "withScriptPath"}
    /\ lastCtor.platform = "linux"
    /\ lastCtor.returned # None
    /\ \E i, j \in Idx :
          /\ i < j
          /\ calls[i].exporter = lastCtor.returned[1]
          /\ calls[j].exporter = lastCtor.returned[1]
          /\ Spawned(calls[i])
          /\ calls[j].platform = "linux"
          /\ calls[j].error = Some(UnsupportedPlatformError("linux"))

\* The absolute directory an output-directory argument names.
TargetOf(outputDir) == IF outputDir.abs THEN outputDir.segs ELSE Cwd \o outputDir.segs

\* exportFolderFromAccount(account, folder, dir) in call c1 and
\* exportFolder(account + ":" + folder, dir) in call c2, on the same instance.
Corresponding(c1, c2) ==
    /\ c1.input.op = "exportFromAccount"
    /\ c2.input.op = "export"
    /\ c2.input.folder = c1.input.account \o <<":">> \o c1.input.folder
    /\ c2.input.outputDir = c1.input.outputDir
    /\ c1.exporter = c2.exporter

\* C8: exportFolderFromAccount(account, folder, dir) and
\* exportFolder(account + ":" + folder, dir) on the same instance interact
\* with the environment in the same order and spawn the same child with the
\* same arguments (or throw the same error), whatever ':' the names contain;
\* in the same mode and with the same process outcome they settle alike.
C8_FromAccountEqualsExport ==
    \A i, j \in Idx :
        Corresponding(calls[i], calls[j]) =>
            /\ calls[i].trace = calls[j].trace
            /\ calls[i].spawn = calls[j].spawn
            /\ (calls[i].spawn = None /\ calls[i].mode = calls[j].mode) =>
                  calls[i].error = calls[j].error
            /\ (calls[i].mode = calls[j].mode /\ calls[i].outcome = calls[j].outcome) =>
                  calls[i].state = calls[j].state /\ calls[i].error = calls[j].error

\* A corresponding pair with ':' inside the account name, both calls spawned
\* and settled in the same mode.
C8_Witness ==
    \E i, j \in Idx :
        /\ Corresponding(calls[i], calls[j])
        /\ calls[i].input.account = <<"a", ":">>
        /\ Spawned(calls[i]) /\ Spawned(calls[j])
        /\ calls[i].mode = calls[j].mode
        /\ calls[i].state # "pending" /\ calls[j].state # "pending"

\* The output-directory argument can be made a directory: it is not the
\* empty string and no regular file lies at or above it.  (Files do not
\* change under SpecArgs.)
Creatable(outputDir) ==
    /\ outputDir # EmptyPath
    /\ \A k \in 0..Len(TargetOf(outputDir)) : SubSeq(TargetOf(outputDir), 1, k) \notin files

\* C9: after an export call whose output directory can be created, that
\* directory and all its ancestors exist, whether it was given relative or
\* absolute and whether or not it existed before; and the last argument handed
\* to a spawned child is that directory as an absolute path.
C9_AbsoluteExistingOutputDir ==
    \A i \in Idx :
        LET c == calls[i] IN
        IsExport(c) =>
            /\ Creatable(c.input.outputDir) =>
                  \A k \in 0..Len(TargetOf(c.input.outputDir)) :
                      SubSeq(TargetOf(c.input.outputDir), 1, k) \in dirs
            /\ Spawned(c) =>
                  LET last == c.spawn[1].argv[Len(c.spawn[1].argv)] IN
                  /\ last.abs
                  /\ last.segs = TargetOf(c.input.outputDir)
                  /\ last.segs \in dirs

\* A spawned export to a relative directory with a missing parent, and one
\* to an absolute directory.
C9_Witness ==
    \E i, j \in Idx :
        /\ IsExport(calls[i]) /\ Spawned(calls[i])
        /\ calls[i].input.outputDir = Rel(<<"out", "sub">>)
        /\ IsExport(calls[j]) /\ Spawned(calls[j])
        /\ calls[j].input.outputDir.abs

\* C10: the arguments handed to a spawned child after the script path are
\* <<"list">> for a list call and <<"export", folder specifier, absolute
\* output directory>> for an export call, the folder specifier being the
\* folder argument as given, or account + ":" + folder.
C10_InvocationArguments ==
    \A i \in Idx :
        LET c == calls[i] IN
        Spawned(c) =>
            /\ c.spawn[1].command = "osascript"
            /\ Len(c.spawn[1].argv) = IF IsExport(c) THEN 4 ELSE 2
            /\ ArgsOf(c)[1] = IF IsExport(c) THEN "export" ELSE "list"
            /\ IsExport(c) =>
                  /\ ArgsOf(c)[2] = IF c.input.op = "export" THEN c.input.folder
                                    ELSE c.input.account \o <<":">> \o c.input.folder
                  /\ ArgsOf(c)[3] = Abs(TargetOf(c.input.outputDir))

\* A spawned synchronous list call and a spawned asynchronous
\* export-from-account call, or the other way round.
C10_Witness ==
    \E i, j \in Idx :
        /\ Spawned(calls[i]) /\ calls[i].input.op = "list"
        /\ Spawned(calls[j]) /\ calls[j].input.op = "exportFromAccount"
        /\ calls[i].mode # calls[j].mode

\* C11: prepareOutputDir is idempotent.  Of two export calls given the same
\* output directory, when the preparation of the earlier one succeeded the
\* preparation of the later one succeeds too and returns the same absolute
\* path; and when the later call is the very next call, it leaves the
\* directories exactly as the earlier one left them.
C11_PrepareOutputDirIdempotent ==
    \A i, j \in Idx :
        (/\ i < j
         /\ IsExport(calls[i]) /\ IsExport(calls[j])
         /\ calls[i].input.outputDir = calls[j].input.outputDir
         /\ calls[i].prepared # None)
        => /\ calls[j].prepared = calls[i].prepared
           /\ calls[i].prepared[1].abs
           /\ Pos(calls[j].trace, "checkPlatform") = Pos(calls[j].trace, "mkdirSync") + 1
           /\ (j = i + 1 => calls[j].dirsAfter = calls[i].dirsAfter)

\* Two consecutive exports to the same relative directory, which did not
\* exist before the first of them, and two to the same absolute directory.
C11_Witness ==
    /\ Len(calls) = 2
    /\ IsExport(calls[1]) /\ IsExport(calls[2])
    /\ calls[1].input.outputDir = Rel(<<"out", "sub">>)
    /\ calls[2].input.outputDir = Rel(<<"out", "sub">>)
    /\ calls[1].prepared = Some(Abs(Cwd \o <<"out", "sub">>))
    /\ calls[2].prepared = Some(Abs(Cwd \o <<"out", "sub">>))
    /\ calls[2].dirsAfter = calls[1].dirsAfter
    /\ Cwd \o <<"out", "sub">> \in dirs

\* C12: an export call whose output directory cannot be made a directory (the
\* empty string, or a regular file at or above it) is rejected with
\* InvalidPathError carrying the output directory as it was given.
C12_UnusableOutputDirIsInvalidPath ==
    \A i \in Idx :
        LET c == calls[i] IN
        (IsExport(c) /\ ~Creatable(c.input.outputDir))
        => /\ c.state = "rejected"
           /\ c.error = Some(InvalidPathError(c.input.outputDir))

\* C13: a call whose child could not be launched (spawnSync returned an
\* error, or the child's first event was "error") is rejected with LaunchError
\* whose cause is that operating-system error, in both modes; and no spawned
\* call is ever rejected with anything but LaunchError or ScriptFailedError.
C13_LaunchFailureWrapped ==
    \A i \in Idx :
        LET c == calls[i] IN
        /\ (c.outcome # None /\ c.outcome[1].error # None)
           => /\ c.state = "rejected"
              /\ c.error = Some(LaunchError(c.outcome[1].error[1]))
              /\ c.error[1].cause \in OsErrors
        /\ (Spawned(c) /\ c.state = "rejected")
           => c.error[1].kind \in {"LaunchError", "ScriptFailedError"}

\* A synchronous and an asynchronous call, both of which failed to launch.
C13_Witness ==
    \E i, j \in Idx :
        /\ calls[i].mode = "sync" /\ calls[j].mode = "async"
        /\ calls[i].outcome # None /\ calls[i].outcome[1].error # None
        /\ calls[j].outcome # None /\ calls[j].outcome[1].error # None
        /\ calls[i].error[1].kind = "LaunchError"
        /\ calls[j].error[1].kind = "LaunchError"

\* C14: a synchronous and an asynchronous call on the same exporter with the
\* same arguments, whose children had the same outcome, have the same result:
\* the same state and the same error (kind, exit code and diagnostic text).
C14_SyncAsyncSameMapping ==
    \A i, j \in Idx :
        (/\ calls[i].mode = "sync" /\ calls[j].mode = "async"
         /\ calls[i].exporter = calls[j].exporter
         /\ calls[i].input = calls[j].input
         /\ calls[i].outcome # None
         /\ calls[i].outcome = calls[j].outcome)
        => /\ calls[i].state = calls[j].state
           /\ calls[i].error = calls[j].error

\* C15: asynchronous calls in flight together are independent.  In every
\* step the child of a call stays the one it spawned, at most one call
\* changes, a call's result changes only together with an event of its own
\* child, and no exporter changes; and in every state, settled asynchronous
\* calls whose children had the same outcome have the same result, whatever
\* happened to the other calls.
C15_ConcurrentCallsIndependent ==
    /\ [](\A i, j \in Idx :
              (/\ calls[i].mode = "async" /\ calls[j].mode = "async"
               /\ Spawned(calls[i]) /\ Spawned(calls[j])
               /\ calls[i].outcome = calls[j].outcome)
              => /\ calls[i].state = calls[j].state
                 /\ calls[i].error = calls[j].error)
    /\ [][/\ Len(calls') >= Len(calls)
          /\ \A i \in Idx :
                 /\ calls'[i].spawn = calls[i].spawn
                 /\ calls'[i].exporter = calls[i].exporter
                 /\ calls'[i].source = calls[i].source
                 /\ (calls'[i] # calls[i]) => \A j \in Idx \ {i} : calls'[j] = calls[j]
                 /\ (calls'[i].state # calls[i].state \/ calls'[i].error # calls[i].error)
                    => calls'[i].events # calls[i].events
          /\ Len(exporters') >= Len(exporters)
          /\ \A e \in 1..Len(exporters) : exporters'[e] = exporters[e]]_vars

\* Two asynchronous calls on the same exporter, both spawned: the later one
\* has failed while the earlier one is still pending.
C15_Witness ==
    /\ Len(calls) = 2
    /\ calls[1].mode = "async" /\ calls[2].mode = "async"
    /\ calls[1].exporter = calls[2].exporter
    /\ Spawned(calls[1]) /\ Spawned(calls[2])
    /\ calls[1].state = "pending"
    /\ calls[2].state = "rejected"

\* C18: an asynchronous call that spawned is pending exactly as long as its
\* child has emitted no event; the first event decides the result (an error
\* event: LaunchError with that error, an exit event: success for code 0 and
\* ScriptFailedError otherwise); and once the call is settled no step changes
\* its result, whatever the child emits later.
C18_SettlesOnceAtFirstEvent ==
    /\ [](\A i \in Idx :
              LET c == calls[i] IN
              (c.mode = "async" /\ Spawned(c))
              => /\ (c.state = "pending") <=> (c.events = {})
                 /\ (c.state = "pending") <=> (c.outcome = None)
                 /\ c.state # "pending"
                    => IF c.outcome[1].error # None
                       THEN c.error = Some(LaunchError(c.outcome[1].error[1]))
                       ELSE IF c.outcome[1].status = Some(0)
                       THEN c.state = "fulfilled"
                       ELSE c.state = "rejected" /\ c.error[1].kind = "ScriptFailedError")
    /\ [][\A i \in Idx :
             calls[i].state # "pending"
             => /\ calls'[i].state = calls[i].state
                /\ calls'[i].error = calls[i].error
                /\ calls'[i].outcome = calls[i].outcome]_vars

\* An asynchronous call whose child emitted both events, the error first,
\* and one whose child emitted both, the exit first.
C18_Witness ==
    \E i, j \in Idx :
        /\ calls[i].mode = "async" /\ calls[j].mode = "async"
        /\ calls[i].events = {"error", "exit"}
        /\ calls[j].events = {"error", "exit"}
        /\ calls[i].error # None /\ calls[i].error[1].kind = "LaunchError"
        /\ calls[j].state = "fulfilled"

\* C17: the steps of every call are in the order script resolution, invocation
\* building, process launch: where a call both tested the existence of its
\* script and created its output directory, the test came first, and the
\* spawn came after both.
C17_ResolutionBeforeBuilding ==
    \A i \in Idx :
        LET t == calls[i].trace IN
        /\ (Pos(t, "existsSync") > 0 /\ Pos(t, "mkdirSync") > 0)
           => Pos(t, "existsSync") < Pos(t, "mkdirSync")
        /\ (Pos(t, "spawn") > 0 /\ Pos(t, "mkdirSync") > 0)
           => Pos(t, "mkdirSync") < Pos(t, "spawn")
        /\ (Pos(t, "spawn") > 0 /\ Pos(t, "existsSync") > 0)
           => Pos(t, "existsSync") < Pos(t, "spawn")

\* C17, amended: the steps of every call are in the order invocation
\* building, script resolution, process launch.  An export call begins by
\* creating its output directory; the existence test of the default script,
\* where a call makes one, comes after that; a spawn is the last step and
\* comes after both; a list call creates no directory.
C17_BuildingBeforeResolution ==
    \A i \in Idx :
        LET c == calls[i]
            t == c.trace
        IN  /\ IsExport(c) => t[1] = "mkdirSync"
            /\ ~IsExport(c) => Pos(t, "mkdirSync") = 0
            /\ (Pos(t, "existsSync") > 0 /\ Pos(t, "mkdirSync") > 0)
               => Pos(t, "mkdirSync") < Pos(t, "existsSync")
            /\ Pos(t, "existsSync") > 0 => c.source.type = "embedded"
            /\ Spawned(c)
               => /\ t[Len(t)] = "spawn"
                  /\ Pos(t, "spawn") = Len(t)
                  /\ c.source.type = "embedded" => Pos(t, "existsSync") = Len(t) - 1

\* An export on a default-source exporter that created the directory, tested
\* the script and spawned, and one that created the directory and then
\* found the script missing.
C17_Witness ==
    \E i, j \in Idx :
        /\ IsExport(calls[i]) /\ calls[i].source.type = "embedded"
        /\ calls[i].trace = <<"mkdirSync", "checkPlatform", "existsSync", "spawn">>
        /\ IsExport(calls[j]) /\ calls[j].source.type = "embedded"
        /\ calls[j].trace = <<"mkdirSync", "checkPlatform", "existsSync">>
        /\ calls[j].error # None /\ calls[j].error[1].kind = "ScriptNotFoundError"

\* C19: an exporter built by withScriptPath tests the script's existence at
\* construction only.  Every call on it made on darwin (an export: once its
\* output directory is prepared) spawns the child with the exporter's
\* resolved absolute path as the script, makes no existence test and is not
\* rejected with ScriptNotFoundError, whether or not the file still exists;
\* a call rejected with ScriptNotFoundError is a call on a default-source
\* exporter.
C19_PathSourceCheckedAtConstructionOnly ==
    \A i \in Idx :
        LET c == calls[i] IN
        /\ (/\ c.source.type = "path"
            /\ c.platform = "darwin"
            /\ IsExport(c) => c.prepared # None)
           => /\ Spawned(c)
              /\ c.spawn[1].argv[1] = c.source.path
              /\ c.source.path.abs
              /\ Pos(c.trace, "existsSync") = 0
              /\ c.error # None => c.error[1].kind # "ScriptNotFoundError"
        /\ c.source.type = "path" => Pos(c.trace, "existsSync") = 0
        /\ (c.error # None /\ c.error[1].kind = "ScriptNotFoundError")
           => c.source.type = "embedded"

\* A call on a path-source exporter that spawned although the script file
\* had been removed since construction, and a default-source call rejected
\* with ScriptNotFoundError.
C19_Witness ==
    \E i, j \in Idx :
        /\ calls[i].source.type = "path"
        /\ ~calls[i].scriptPresent
        /\ Spawned(calls[i])
        /\ calls[i].spawn[1].argv[1] = Abs(CustomScript)
        /\ calls[j].source.type = "embedded"
        /\ calls[j].error # None /\ calls[j].error[1].kind = "ScriptNotFoundError"

\* The command of a run is none of the program's commands, or it is export
\* with fewer than two positional arguments after it ("--script" and the
\* argument following it not counted); runs asking for help or the version
\* by a flag are left aside.
IsUsageError(args) ==
    /\ Len(args) > 0
    /\ ~Includes(args, "-h") /\ ~Includes(args, "--help")
    /\ ~Includes(args, "-V") /\ ~Includes(args, "--version")
    /\ \/ args[1] \notin {"list", "ls", "export", "help", "version"}
       \/ args[1] = "export" /\ Len(remainingArgs(args, 2)) < 2

\* C16: a run of the command-line program with an unknown command, or with
\* export and a missing positional argument, writes the usage text to the
\* error stream and exits with a non-zero status, no exporter having been
\* constructed and no child spawned.
C16_UsageErrorOnStderr ==
    (cli.pc # "none" /\ IsUsageError(cli.argv))
    => /\ cli.pc = "exited"
       /\ cli.exitCode # None /\ cli.exitCode # Some(0)
       /\ Includes(cli.stderr, UsageText)
       /\ exporters = <<>>
       /\ calls = <<>>

============================================================================
